---- MODULE Spec2Model ----
(***************************************************************************)
(* ucla-cli: the reconciliation loop of `soc` (src/ucla_cli/__main__.py)   *)
(* and the section detail extractor (src/ucla_cli/section_details.py).     *)
(*                                                                         *)
(* Spec          one whole run of soc(): paging loop, course loop, summary *)
(*               retry loop, section loop, quiet branch.                   *)
(* SpecSections  the section loop of one course (lines 400-464) started on *)
(*               any page context, with the full set of row shapes and     *)
(*               cleaner behaviours.                                       *)
(* SpecFetch     one call of get_page_content(url, retries, delay).        *)
(* SpecDetails   one call of extract_section_details_from_url, with the    *)
(*               call of get_page_content it makes.                        *)
(* SpecTitles    the six get_data_for_title calls on a fetched page, for   *)
(*               every list of child elements of div#section.              *)
(* SpecLinks     one call of extract_section_links.                        *)
(* SpecRows      one call of extract_all_section_data.                     *)
(***************************************************************************)
EXTENDS Integers, Sequences, FiniteSets, TLC

\* ------------------------------------------------------------- bounds ----
MaxPages   == 2     \* listing pages the site serves
MaxCourses == 2     \* course models on one listing page
MaxRows    == 2     \* section rows on one course summary page
MaxRetriesArg == 3  \* largest `retries` argument given to get_page_content
MaxDivs    == 3     \* cls-section divs on one listing page
MaxSiblings == 3    \* child elements of div#section on a detail page

\* ---------------------------------------------------- program constants --
max_retries    == 3
backoff_factor == 2

\* ------------------------------------------------------------ values -----
None == "<None>"                     \* Python None / key not in the dict

\* `not v` for a value that is None or a str
Falsy(v) == v = None \/ v = ""

SuppKeys ==
  {"course_description", "class_description_detail", "general_education_ge",
   "writing_ii_requirement", "diversity_info", "class_notes"}

preserved_keys ==
  {"section_id", "section_link"} \cup SuppKeys

RowKeys == {"class_id", "status"} \cup preserved_keys

EmptyDict == [k \in SuppKeys |-> None]

\* dict.update(d) on a row: keys of d replace the row's
DictUpdate(row, d) ==
  [k \in DOMAIN row |-> IF k \in DOMAIN d /\ d[k] # None THEN d[k] ELSE row[k]]

Supp(rec) == [k \in SuppKeys |-> rec[k]]

\* ---------------------------------------------------- course numbers -----
\* a course number is a sequence of characters
N101   == <<"1", "0", "1">>
N599   == <<"5", "9", "9">>
N1599A == <<"1", "5", "9", "9", "A">>
CourseNumbers == {N101, N599, N1599A}

special_nums ==
  {<<"2", "9", "9">>, <<"5", "9", "6">>, <<"5", "9", "7">>,
   <<"5", "9", "8">>, <<"5", "9", "9">>}

\* Python `sub in s`
Contains(s, sub) ==
  \E k \in 0..(Len(s) - Len(sub)) : SubSeq(s, k + 1, k + Len(sub)) = sub

is_special_course(course_number) ==
  \E special_num \in special_nums : Contains(course_number, special_num)

\* ------------------------------------------------- section link index ----
IndexUrl == "https://sa.ucla.edu/ro/idx"
RowUrl   == "https://sa.ucla.edu/ro/row"

EntryFull  == [section_id |-> "Lec 1", section_link |-> IndexUrl]
EntryEmpty == [section_id |-> "", section_link |-> ""]

\* section_links_map values returned by extract_section_links for a page
MapNone    == [c \in {} |-> EntryFull]
MapC1      == [c \in {"c1"} |-> EntryFull]
MapBlankId == [c \in {"", "c1"} |-> EntryFull]
MapEmptyHref == [c \in {"c1"} |-> EntryEmpty]

RunMaps == {MapNone, MapC1}
AllMaps == {MapNone, MapC1, MapBlankId, MapEmptyHref}

\* ------------------------------------------------------ section rows -----
ExtractedRow(class_id, section_id, section_link) ==
  [k \in RowKeys |->
     CASE k = "class_id"     -> class_id
       [] k = "status"       -> "Open"
       [] k = "section_id"   -> section_id
       [] k = "section_link" -> section_link
       [] OTHER              -> None]

ConnErrorRow(class_id) ==
  [ExtractedRow(class_id, None, None) EXCEPT !["status"] = "Unknown - Connection Error"]

NotFoundRow(class_id) ==
  [ExtractedRow(class_id, None, None) EXCEPT !["status"] = "Unknown - Data Not Found"]

\* (section_id, section_link) pairs extract_all_section_data can produce
OwnPairs == {<<None, None>>, <<"1A", RowUrl>>, <<"1A", "">>, <<"", RowUrl>>}

AllRows == {ExtractedRow(c, p[1], p[2]) : c \in {None, "", "c1"}, p \in OwnPairs}
RunRows == {ExtractedRow("c1", None, None), ExtractedRow(None, "1A", RowUrl)}

ModelClassIds == {None, "c1"}

\* a row of course_sections whose columns the section loop has not read yet
Unread == "<unread>"
UnreadRow == [ExtractedRow(None, None, None) EXCEPT !["status"] = Unread]
UnreadRows(n) == [j \in 1..n |-> UnreadRow]

NoRow == [k \in RowKeys |-> None]

\* what is kept of the finished record of row 0: whether the row had a link
\* after the index fallback, and its six supplementary fields
NoFirst == [linked |-> FALSE, supp |-> [k \in SuppKeys |-> None]]

\* --------------------------------------------- section detail extractor --
DetailOutcomes == {"unreachable", "no_root", "page"}
RunOutcomes    == {"unreachable", "page"}

default_details == [k \in SuppKeys |-> "N/A"]

\* the six fields of a detail page that has a content root
PageDetails ==
  [k \in SuppKeys |->
     CASE k = "course_description" -> "Intro to testing."
       [] k = "class_notes"        -> "N/A (Empty)"
       [] k = "diversity_info"     -> "Meets diversity requirement."
       [] OTHER                    -> "N/A"]

extract_section_details_from_url(section_url, outcome) ==
  IF Falsy(section_url)
  THEN [default_details EXCEPT !["course_description"] = "N/A (No URL provided)"]
  ELSE IF outcome = "unreachable"
  THEN [default_details EXCEPT !["course_description"] = "N/A (Failed to fetch page content)"]
  ELSE IF outcome = "no_root"
  THEN default_details
  ELSE PageDetails

\* ------------------------------------------------------ field cleaner ----
\* clean_course_summary may drop, empty or rewrite any field it is given
CleanOps == {"keep", "drop", "empty", "rewrite"}
CleanTargets == {preserved_keys, {"section_id", "section_link"}}
AllBehaviours ==
  {[op |-> "keep", keys |-> preserved_keys]}
    \cup [op : CleanOps \ {"keep"}, keys : CleanTargets]
RunBehaviours == {[op |-> "drop", keys |-> preserved_keys]}

clean_course_summary(record, beh) ==
  [k \in DOMAIN record |->
     IF k \notin beh.keys \/ record[k] = None THEN record[k]
     ELSE CASE beh.op = "keep"    -> record[k]
            [] beh.op = "drop"    -> None
            [] beh.op = "empty"   -> ""
            [] beh.op = "rewrite" -> "cleaned"]

\* ------------------------------------------- section loop, one iteration --
\* lines 403-409
apply_link_fallback_overwrite(row, map) ==
  LET class_id_from_section == row["class_id"] IN
  IF ~Falsy(class_id_from_section) /\ class_id_from_section \in DOMAIN map
  THEN [row EXCEPT !["section_id"]   = map[class_id_from_section].section_id,
                   !["section_link"] = map[class_id_from_section].section_link]
  ELSE row

apply_link_fallback(row, map) ==
  LET class_id_from_section == row["class_id"] IN
  IF ~Falsy(class_id_from_section) /\ class_id_from_section \in DOMAIN map
  THEN [row EXCEPT
          !["section_id"]   = IF Falsy(@) THEN map[class_id_from_section].section_id ELSE @,
          !["section_link"] = IF Falsy(@) THEN map[class_id_from_section].section_link ELSE @]
  ELSE row

\* lines 413-420; i counts from 0
should_fetch_details_always(special, i) == TRUE

should_fetch_details(special, i) ==
  IF special THEN i = 0 ELSE TRUE

\* line 422
link_missing_none_only(row) == row["section_link"] = None

link_missing(row) == Falsy(row["section_link"])

\* line 425: the extractor is called for this row
fetches_details(row, special, i) ==
  ~link_missing(row) /\ should_fetch_details(special, i)

\* lines 411, 422-438
details_from_link(row, special, i, shared, outcome) ==
  IF link_missing(row) THEN EmptyDict
  ELSE IF should_fetch_details(special, i)
  THEN extract_section_details_from_url(row["section_link"], outcome)
  ELSE IF special /\ i > 0 THEN shared
  ELSE EmptyDict

\* lines 428-436
cache_shared_details(row, special, i, shared, details) ==
  IF fetches_details(row, special, i) /\ special /\ i = 0
  THEN [k \in SuppKeys |-> details[k]]
  ELSE shared

\* lines 445-453
restore_preserved_if_lost(orig, cleaned, details) ==
  [k \in DOMAIN cleaned |->
     IF k \in preserved_keys /\ ~Falsy(orig[k]) /\ Falsy(cleaned[k])
     THEN orig[k] ELSE cleaned[k]]

restore_preserved(orig, cleaned, details) ==
  [k \in DOMAIN cleaned |->
     IF k \notin preserved_keys THEN cleaned[k]
     ELSE IF ~Falsy(orig[k]) THEN orig[k]
     ELSE IF Falsy(cleaned[k]) /\ k \in SuppKeys /\ ~Falsy(details[k]) THEN details[k]
     ELSE cleaned[k]]


\* lines 455-464: the record is appended for the CSV and/or displayed
emits_record(csv, qcsv) == csv \/ ~(csv /\ qcsv)

\* --------------------------------------------------------- other steps ---
\* line 381
backoff_delay(n) == n * backoff_factor

\* line 374
retry_allowed_once_more(n) == n <= max_retries

retry_allowed(n) == n < max_retries

\* lines 392-397
ensure_sections_unchanged(sections, class_id) == sections

ensure_sections(sections, class_id) ==
  IF sections = <<>> THEN <<NotFoundRow(class_id)>> ELSE sections

\* lines 488-489
last_page_after_never(was_last, marker) == was_last

last_page_after(was_last, marker) ==
  IF marker THEN TRUE ELSE was_last

\* line 475
quiet_fetches_without_csv(csv, link) == ~Falsy(link)

quiet_fetches(csv, link) == csv /\ ~Falsy(link)

\* ------------------------------------------------------------ strings ----
\* str.startswith
startswith(s, prefix) ==
  Len(s) >= Len(prefix) /\ SubSeq(s, 1, Len(prefix)) = prefix

\* position of the first occurrence of the character c in s, 0 when none
find_char(s, c) ==
  IF \E k \in 1..Len(s) : SubSeq(s, k, k) = c
  THEN CHOOSE k \in 1..Len(s) :
         /\ SubSeq(s, k, k) = c
         /\ \A j \in 1..(k - 1) : SubSeq(s, j, j) # c
  ELSE 0

\* str.split(c) for a one-character separator
RECURSIVE split(_, _)
split(s, c) ==
  LET k == find_char(s, c) IN
  IF k = 0 THEN <<s>>
  ELSE <<SubSeq(s, 1, k - 1)>> \o split(SubSeq(s, k + 1, Len(s)), c)

RECURSIVE lstrip(_)
lstrip(s) ==
  IF Len(s) > 0 /\ SubSeq(s, 1, 1) = " " THEN lstrip(SubSeq(s, 2, Len(s))) ELSE s

RECURSIVE rstrip(_)
rstrip(s) ==
  IF Len(s) > 0 /\ SubSeq(s, Len(s), Len(s)) = " "
  THEN rstrip(SubSeq(s, 1, Len(s) - 1)) ELSE s

\* str.strip
strip(s) == rstrip(lstrip(s))

\* sep.join(parts)
RECURSIVE join(_, _)
join(sep, parts) ==
  IF parts = <<>> THEN ""
  ELSE IF Len(parts) = 1 THEN parts[1]
  ELSE parts[1] \o sep \o join(sep, Tail(parts))

\* [x for x in parts if x]
RECURSIVE non_empty(_)
non_empty(parts) ==
  IF parts = <<>> THEN <<>>
  ELSE IF parts[1] = "" THEN non_empty(Tail(parts))
  ELSE <<parts[1]>> \o non_empty(Tail(parts))

\* lines 93-94 (also 51-52, 205-206)
origin == "https://sa.ucla.edu"

absolutize(href) ==
  IF startswith(href, "/") THEN origin \o href ELSE href

\* ------------------------------------------------------ page fetcher -----
\* section_details.py line 13: the default arguments
default_retries == 3
default_delay   == 2

\* exceptions of requests.get and raise_for_status that line 19 catches
RequestExceptions == {"ConnectionError", "Timeout", "HTTPError"}

\* line 22
retry_sleep_constant(d, n) == d

retry_sleep(d, n) == d * (n + 1)

\* line 21
sleeps_before_retry(n, r) == n < r - 1

\* ------------------------------------------------- section detail page ---
\* an element among the children of div#section
Element(name, class, text, items) ==
  [name |-> name, class |-> class, text |-> text, items |-> items]

TitleP(text) == Element("p", "class_detail_title", text, <<>>)
DataP(text)  == Element("p", "section_data", text, <<>>)
Ul(items)    == Element("ul", "", "", items)
OtherTag     == Element("div", "", "", <<>>)

\* lines 129-134
title_of ==
  [k \in SuppKeys |->
     CASE k = "course_description"       -> "Course Description"
       [] k = "class_description_detail" -> "Class Description"
       [] k = "general_education_ge"     -> "General Education (GE)"
       [] k = "writing_ii_requirement"   -> "Writing II"
       [] k = "diversity_info"           -> "Diversity"
       [] k = "class_notes"              -> "Class Notes"]

\* least position in S, 0 when S is empty
first_of(S) == IF S = {} THEN 0 ELSE CHOOSE k \in S : \A j \in S : k <= j

\* line 28: position of the title paragraph among the children, 0 when none
find_title_p(children, title_str_exact) ==
  first_of({k \in 1..Len(children) :
              /\ children[k].name = "p" /\ children[k].class = "class_detail_title"
              /\ children[k].text # "" /\ strip(children[k].text) = title_str_exact})

\* find_next_sibling('ul') / find_next_sibling('p', class_ has section_data)
next_sibling_of(children, k, name, class) ==
  first_of({j \in (k + 1)..Len(children) :
              children[j].name = name /\ children[j].class = class})

\* lines 33-46: the data element chosen for "Class Notes", 0 when none
class_notes_element(children, title_p) ==
  IF title_p = Len(children) THEN 0
  ELSE LET next_sibling == title_p + 1 IN
       IF children[next_sibling].name = "ul" THEN next_sibling
       ELSE IF children[next_sibling].name = "p"
               /\ children[next_sibling].class = "section_data"
       THEN IF strip(children[next_sibling].text) = ""
            THEN LET ul_after_empty_p == next_sibling_of(children, next_sibling, "ul", "")
                 IN  IF ul_after_empty_p # 0 THEN ul_after_empty_p ELSE next_sibling
            ELSE next_sibling
       ELSE 0

\* lines 52-74
element_text(el) ==
  IF el.name = "ul"
  THEN join(" ; ", non_empty([n \in 1..Len(el.items) |-> strip(el.items[n])]))
  ELSE strip(el.text)

\* lines 27-78
get_data_for_title(children, title_str_exact) ==
  LET title_p == find_title_p(children, title_str_exact) IN
  IF title_p = 0 THEN "N/A"
  ELSE LET special == IF title_str_exact = "Class Notes"
                      THEN class_notes_element(children, title_p) ELSE 0
           data_element == IF special # 0 THEN special
                           ELSE next_sibling_of(children, title_p, "p", "section_data")
       IN  IF data_element = 0 THEN "N/A"
           ELSE LET text_content == element_text(children[data_element])
                IN  IF text_content # "" THEN text_content ELSE "N/A (Empty)"

\* a fetched document: what get_page_content returned and, for HTML, where
\* div#section is and what its children are
Doc(kind, template, tpl_root, main_root, children) ==
  [kind |-> kind, template |-> template, tpl_root |-> tpl_root,
   main_root |-> main_root, children |-> children]

NoneDoc    == Doc("None", "absent", FALSE, FALSE, <<>>)     \* get_page_content gave None
EmptyText  == Doc("empty", "absent", FALSE, FALSE, <<>>)    \* response.text is ""
NotFetched == Doc("not fetched", "absent", FALSE, FALSE, <<>>)

\* line 99: `not html_content`
html_missing(html_content) == html_content.kind \in {"None", "empty"}

\* lines 104-121: div#section is found in the template fragment or, failing
\* that, in the outer document
section_div_found(doc) ==
  \/ doc.template = "content" /\ doc.tpl_root
  \/ doc.main_root

\* lines 99-125: which return statement the page leads to
page_outcome(html_content) ==
  IF html_missing(html_content) THEN "unreachable"
  ELSE IF ~section_div_found(html_content) THEN "no_root"
  ELSE "page"

\* lines 127-136
section_details(section_div_children) ==
  [k \in SuppKeys |-> get_data_for_title(section_div_children, title_of[k])]

\* lines 81-136, for a page as served
extract_details_unreachable_plain(section_url, html_content) ==
  IF page_outcome(html_content) = "page" /\ ~Falsy(section_url)
  THEN section_details(html_content.children)
  ELSE IF Falsy(section_url)
  THEN extract_section_details_from_url(section_url, "unreachable")
  ELSE default_details

extract_details(section_url, html_content) ==
  IF page_outcome(html_content) = "page" /\ ~Falsy(section_url)
  THEN section_details(html_content.children)
  ELSE extract_section_details_from_url(section_url, page_outcome(html_content))

\* ---------------------------------------------- section link extraction --
\* a cls-section div of a listing page: its id, what its first p.hide-small
\* holds ("no_p": there is none, "no_a": no anchor, "no_href": an anchor
\* without href, "href": an anchor with href), the href and the anchor text
Div(id, anchor, href, text) ==
  [id |-> id, anchor |-> anchor, href |-> href, text |-> text]

\* lines 78-90: none of the `continue` statements is taken
div_is_mapped(div) ==
  /\ div.id # ""
  /\ Len(split(div.id, "_")) >= 2
  /\ div.anchor = "href"

\* line 84
div_class_id(div) == split(div.id, "_")[1]

\* lines 91-98
section_link_entry(div) ==
  [section_id |-> strip(div.text), section_link |-> absolutize(div.href)]

\* line 95: section_links[class_id] = entry
store_link_keep_first(section_links, class_id, entry) ==
  [c \in DOMAIN section_links \cup {class_id} |->
     IF c \in DOMAIN section_links THEN section_links[c] ELSE entry]

store_link(section_links, class_id, entry) ==
  [c \in DOMAIN section_links \cup {class_id} |->
     IF c = class_id THEN entry ELSE section_links[c]]

\* ------------------------------------------------ section row extraction -
\* a locationColumn element: its first p ("none", "text" or "button") and
\* the text of the p or of the button in it
LocationColumn(p, text) == [p |-> p, text |-> text]

\* a data_row primary-row div of a summary page: its id, the link of its
\* first column ("none" or "href"), the first content of its waitlist
\* paragraph ("text" or "tag") and its locationColumn elements
SectionRow(id, link, href, text, waitlist, location_columns) ==
  [id |-> id, link |-> link, href |-> href, text |-> text,
   waitlist |-> waitlist, location_columns |-> location_columns]

\* lines 25-33, for the locationColumn elements of the soup it is given
extract_location(location_columns) ==
  IF Len(location_columns) > 1
  THEN LET p == location_columns[2] IN
       IF p.p \in {"button", "text"} THEN strip(p.text) ELSE "N/A"
  ELSE "N/A"

\* line 185
row_class_id(row_id) ==
  IF find_char(row_id, "_") # 0 THEN split(row_id, "_")[1] ELSE None

\* line 217: .strip() is called on the first content of the waitlist
\* paragraph, which raises when that content is a tag
row_raises(row) == row.waitlist = "tag"

\* lines 184-225
section_data(row) ==
  [class_id     |-> row_class_id(row.id),
   waitlist     |-> "0 of 10 Taken",
   location     |-> IF row.location_columns # <<>>
                    THEN extract_location(row.location_columns) ELSE "N/A",
   section_id   |-> IF row.link = "href" THEN strip(row.text) ELSE None,
   section_link |-> IF row.link = "href" THEN absolutize(row.href) ELSE None]

\* lines 230-234
error_row_one_based(row_idx) ==
  [class_id |-> None, waitlist |-> "Error", location |-> "Error",
   section_id |-> "Error_Row_" \o ToString(row_idx + 1), section_link |-> None]

error_row(row_idx) ==
  [class_id |-> None, waitlist |-> "Error", location |-> "Error",
   section_id |-> "Error_Row_" \o ToString(row_idx), section_link |-> None]

\* line 400
fresh_shared_details_kept(previous) == previous

fresh_shared_details(previous) == EmptyDict

\* ------------------------------------------------------------- state -----
VARIABLES
  course_details, csv_export, quiet_csv,      \* soc() arguments
  page, last_page,                            \* lines 329-330
  text_page,                                  \* "none", "ok" or "empty": line 339
  fetched,                                    \* page numbers passed to course_titles_view
  section_links_map,                          \* line 345
  n_models,                                   \* len(models), line 346
  processed,                                  \* models of this page the for loop has taken
  had_marker,                                 \* this page was found to carry lastPage
  course_number, title_found,                 \* lines 352-363
  retry_count, attempts, delays,              \* lines 370-383; delays = the backoff sleeps
  course_sections, i,                         \* lines 372, 402
  shared_details,                             \* line 400
  section_link_missing_count,                 \* line 332
  own_row,                                    \* row i as the summary extractor returned it
  orig_section_data, cleaned_section_data,    \* lines 442-453
  cleaner_lost,                               \* the cleaner changed a preserved key that had a value
  first_record,                               \* the finished record of row 0 of this course
  fetch_count,                                \* detail extractor calls made for this course
  emitted,                                    \* records of this course appended or displayed
  pc,
  retries, delay, attempt,                    \* section_details.py lines 13-14
  failures, sleeps,                           \* exceptions caught (line 19), sleeps made (line 22)
  requests_made,                              \* calls of requests.get (line 16)
  html_content,                               \* what get_page_content returned (line 98)
  section_url, returned_details,              \* extract_section_details_from_url: argument, result
  section_divs, div_idx, section_links,       \* lines 74-77; div_idx = divs the loop has taken
  section_rows, sections                      \* lines 179-182

flags   == <<course_details, csv_export, quiet_csv>>
pagev   == <<page, last_page, text_page, fetched, section_links_map, n_models, had_marker>>
retryv  == <<retry_count, attempts, delays>>
rowv    == <<own_row, orig_section_data, cleaned_section_data, cleaner_lost, first_record>>
fetchv  == <<retries, delay, attempt, failures, sleeps, requests_made, html_content>>
detailv == <<section_url, returned_details>>
linkv   == <<section_divs, div_idx, section_links>>
rowsv   == <<section_rows, sections>>
callv   == <<fetchv, detailv, linkv, rowsv>>
socv    == <<flags, pagev, processed, course_number, title_found, retryv, course_sections,
             i, shared_details, section_link_missing_count, rowv, fetch_count, emitted>>
vars    == <<socv, pc, callv>>

\* a function that has not been called
NotCalled == "<not called>"

IdleFetch ==
  /\ retries = 0 /\ delay = 0 /\ attempt = 0 /\ failures = <<>> /\ sleeps = <<>>
  /\ requests_made = 0 /\ html_content = NotFetched

IdleDetails == section_url = NotCalled /\ returned_details = EmptyDict

IdleLinks == section_divs = <<>> /\ div_idx = 0 /\ section_links = MapNone

IdleRows == section_rows = <<>> /\ sections = <<>>

IdleCalls == IdleFetch /\ IdleDetails /\ IdleLinks /\ IdleRows

Init ==
  /\ course_details \in BOOLEAN /\ csv_export \in BOOLEAN /\ quiet_csv \in BOOLEAN
  /\ page = 1 /\ last_page = FALSE /\ text_page = "none" /\ fetched = <<>>
  /\ section_links_map = MapNone /\ n_models = 0 /\ processed = 0 /\ had_marker = FALSE
  /\ course_number = <<>> /\ title_found = FALSE
  /\ retry_count = 0 /\ attempts = 0 /\ delays = <<>>
  /\ course_sections = <<>> /\ i = 0
  /\ shared_details = EmptyDict
  /\ section_link_missing_count = 0
  /\ own_row = NoRow /\ orig_section_data = NoRow /\ cleaned_section_data = NoRow
  /\ cleaner_lost = FALSE /\ first_record = NoFirst
  /\ fetch_count = 0 /\ emitted = 0
  /\ pc = "while"
  /\ IdleCalls

\* lines 337-342: course_titles_view returns nothing
FetchPageFails ==
  /\ pc = "while" /\ ~last_page
  /\ fetched' = Append(fetched, page)
  /\ text_page' = "empty"
  /\ pc' = "done"
  /\ UNCHANGED callv
  /\ UNCHANGED <<flags, page, last_page, section_links_map, n_models, had_marker, processed,
                 course_number, title_found, retryv, course_sections, i, shared_details,
                 section_link_missing_count, rowv, fetch_count, emitted>>

\* lines 337-349: a listing page with n course models
FetchPageOn(Maps) ==
  /\ pc = "while" /\ ~last_page
  /\ page <= MaxPages
  /\ fetched' = Append(fetched, page)
  /\ text_page' = "ok"
  /\ page' = page + 1
  /\ section_links_map' \in Maps
  /\ \E n \in 0..MaxCourses :
       /\ n_models' = n
       /\ pc' = IF n = 0 THEN "done" ELSE "for_course"
  /\ processed' = 0
  /\ had_marker' = FALSE
  /\ UNCHANGED callv
  /\ UNCHANGED <<flags, last_page, course_number, title_found, retryv, course_sections, i,
                 shared_details, section_link_missing_count, rowv, fetch_count, emitted>>

\* line 337: the while condition fails
ExitLoop ==
  /\ pc = "while" /\ last_page
  /\ pc' = "done"
  /\ UNCHANGED callv
  /\ UNCHANGED <<flags, pagev, processed, course_number, title_found, retryv, course_sections,
                 i, shared_details, section_link_missing_count, rowv, fetch_count, emitted>>

\* lines 351-355: no title element for the course
SkipCourse ==
  /\ pc = "for_course" /\ processed < n_models
  /\ title_found' = FALSE
  /\ processed' = processed + 1
  /\ fetch_count' = 0 /\ emitted' = 0
  /\ UNCHANGED callv
  /\ UNCHANGED <<flags, pagev, course_number, retryv, course_sections, i, shared_details,
                 section_link_missing_count, rowv, pc>>

\* lines 351-372
BeginCourse ==
  /\ pc = "for_course" /\ processed < n_models
  /\ title_found' = TRUE
  /\ course_number' \in CourseNumbers
  /\ fetch_count' = 0 /\ emitted' = 0
  /\ IF course_details
     THEN /\ retry_count' = 0 /\ attempts' = 0 /\ delays' = <<>>
          /\ course_sections' = <<>>
          /\ pc' = "retry"
     ELSE /\ UNCHANGED <<retryv, course_sections>>
          /\ pc' = "quiet"
  /\ UNCHANGED callv
  /\ UNCHANGED <<flags, pagev, processed, i, shared_details, section_link_missing_count, rowv>>

\* lines 374-390: the summary fetch raises a connection, timeout or request error
SummaryRaises ==
  /\ pc = "retry" /\ retry_allowed(retry_count)
  /\ attempts' = attempts + 1
  /\ retry_count' = retry_count + 1
  /\ delays' = Append(delays, backoff_delay(retry_count'))
  /\ \E class_id \in ModelClassIds :
       LET after_except == IF retry_count' >= max_retries
                           THEN <<ConnErrorRow(class_id)>>
                           ELSE course_sections
       IN  IF retry_allowed(retry_count')
           THEN /\ course_sections' = after_except
                /\ UNCHANGED <<pc, i, shared_details>>
           ELSE /\ course_sections' = ensure_sections(after_except, class_id)
                /\ pc' = "for_section" /\ i' = 0 /\ shared_details' = fresh_shared_details(shared_details)
  /\ UNCHANGED callv
  /\ UNCHANGED <<flags, pagev, processed, course_number, title_found,
                 section_link_missing_count, rowv, fetch_count, emitted>>

\* lines 374-378, 392-400: the summary fetch returns n section rows (none when
\* the summary page could not be parsed or has no rows)
SummaryReturns ==
  /\ pc = "retry" /\ retry_allowed(retry_count)
  /\ attempts' = attempts + 1
  /\ \E n \in 0..MaxRows, class_id \in ModelClassIds :
       course_sections' = ensure_sections(UnreadRows(n), class_id)
  /\ pc' = "for_section" /\ i' = 0 /\ shared_details' = fresh_shared_details(shared_details)
  /\ UNCHANGED callv
  /\ UNCHANGED <<flags, pagev, processed, course_number, title_found, retry_count, delays,
                 section_link_missing_count, rowv, fetch_count, emitted>>

\* lines 402-464: one iteration of the section loop
ProcessSectionOn(Rows, Outcomes, Behaviours) ==
  /\ pc = "for_section" /\ i < Len(course_sections)
  /\ \E raw \in (IF course_sections[i + 1]["status"] = Unread
                 THEN Rows ELSE {course_sections[i + 1]}) :
     \E special \in {is_special_course(course_number)} :
     \E row \in {apply_link_fallback(raw, section_links_map)} :
     \E outcome \in (IF fetches_details(row, special, i)
                     THEN Outcomes ELSE {"not fetched"}) :
     \E details \in {details_from_link(row, special, i, shared_details, outcome)} :
     \E merged \in {DictUpdate(row, details)} :
     \E beh \in Behaviours :
     \E cleaned \in {clean_course_summary(merged, beh)} :
     \E final \in {restore_preserved(merged, cleaned, details)} :
       /\ section_link_missing_count' =
            IF link_missing(row) THEN section_link_missing_count + 1
            ELSE section_link_missing_count
       /\ fetch_count' = IF fetches_details(row, special, i)
                         THEN fetch_count + 1 ELSE fetch_count
       /\ shared_details' = cache_shared_details(row, special, i, shared_details, details)
       /\ own_row' = raw
       /\ orig_section_data' = merged
       /\ cleaned_section_data' = final
       /\ cleaner_lost' = \E k \in preserved_keys :
                             ~Falsy(merged[k]) /\ cleaned[k] # merged[k]
       /\ first_record' = IF i = 0
                          THEN [linked |-> ~link_missing(row), supp |-> Supp(final)]
                          ELSE first_record
       /\ emitted' = IF emits_record(csv_export, quiet_csv) THEN emitted + 1 ELSE emitted
  /\ i' = i + 1
  /\ retry_count' = 0 /\ attempts' = 0 /\ delays' = <<>>
  /\ UNCHANGED callv
  /\ UNCHANGED <<flags, pagev, processed, course_number, title_found, course_sections, pc>>

\* line 402: the section loop is exhausted
EndCourse ==
  /\ pc = "for_section" /\ i = Len(course_sections)
  /\ processed' = processed + 1
  /\ pc' = "for_course"
  /\ own_row' = NoRow /\ orig_section_data' = NoRow /\ cleaned_section_data' = NoRow
  /\ cleaner_lost' = FALSE /\ first_record' = NoFirst
  /\ course_sections' = <<>> /\ i' = 0
  /\ UNCHANGED callv
  /\ UNCHANGED <<flags, pagev, course_number, title_found, retryv, shared_details,
                 section_link_missing_count, fetch_count, emitted>>

\* lines 465-487: the branch taken under --quiet
QuietCourseOn(Outcomes) ==
  /\ pc = "quiet"
  /\ \E class_id_from_model \in ModelClassIds, outcome \in Outcomes :
       LET found == ~Falsy(class_id_from_model)
                    /\ class_id_from_model \in DOMAIN section_links_map
           current_section_link ==
             IF found THEN section_links_map[class_id_from_model].section_link ELSE None
           data0 ==
             IF found
             THEN [NoRow EXCEPT
                     !["section_id"] = section_links_map[class_id_from_model].section_id,
                     !["section_link"] = current_section_link]
             ELSE NoRow
           fetch == quiet_fetches(csv_export, current_section_link)
           data_for_summary ==
             IF fetch
             THEN DictUpdate(data0,
                    extract_section_details_from_url(current_section_link, outcome))
             ELSE data0
       IN  /\ fetch_count' = IF fetch THEN fetch_count + 1 ELSE fetch_count
           /\ cleaned_section_data' = data_for_summary
           /\ emitted' = IF emits_record(csv_export, quiet_csv) THEN emitted + 1 ELSE emitted
  /\ processed' = processed + 1
  /\ pc' = "for_course"
  /\ UNCHANGED callv
  /\ UNCHANGED <<flags, pagev, course_number, title_found, retryv, course_sections, i,
                 shared_details, section_link_missing_count, own_row, orig_section_data,
                 cleaner_lost, first_record>>

\* lines 351, 488-490: the course loop is exhausted; look for the lastPage marker
CheckLastPage ==
  /\ pc = "for_course" /\ processed = n_models
  /\ \E marker \in BOOLEAN :
       /\ had_marker' = marker
       /\ last_page' = last_page_after(last_page, marker)
  /\ pc' = "while"
  /\ fetch_count' = 0 /\ emitted' = 0 /\ title_found' = FALSE /\ course_number' = <<>>
  /\ cleaned_section_data' = NoRow
  /\ UNCHANGED callv
  /\ UNCHANGED <<flags, page, text_page, fetched, section_links_map, n_models, processed,
                 retryv, course_sections, i, shared_details, section_link_missing_count,
                 own_row, orig_section_data, cleaner_lost, first_record>>

FetchPage      == FetchPageOn(RunMaps)
ProcessSection == ProcessSectionOn(RunRows, RunOutcomes, RunBehaviours)
QuietCourse    == QuietCourseOn(RunOutcomes)

Next ==
  \/ FetchPageFails
  \/ FetchPage
  \/ ExitLoop
  \/ SkipCourse
  \/ BeginCourse
  \/ SummaryRaises
  \/ SummaryReturns
  \/ ProcessSection
  \/ EndCourse
  \/ QuietCourse
  \/ CheckLastPage

Spec == Init /\ [][Next]_vars

\* the section loop of the first course of the first page is about to start
InitSections ==
  /\ course_details = TRUE /\ csv_export \in BOOLEAN /\ quiet_csv = FALSE
  /\ page = 2 /\ last_page = FALSE /\ text_page = "ok" /\ fetched = <<1>>
  /\ section_links_map \in AllMaps /\ n_models = 1 /\ processed = 0 /\ had_marker = FALSE
  /\ course_number \in CourseNumbers /\ title_found = TRUE
  /\ \/ /\ retry_count = 0 /\ attempts = 1 /\ delays = <<>>
        /\ \E n \in 0..MaxRows, class_id \in ModelClassIds :
             course_sections = ensure_sections(UnreadRows(n), class_id)
     \/ /\ retry_count = max_retries /\ attempts = max_retries
        /\ delays = [n \in 1..max_retries |-> backoff_delay(n)]
        /\ \E class_id \in ModelClassIds : course_sections = <<ConnErrorRow(class_id)>>
  /\ i = 0
  /\ shared_details = EmptyDict
  /\ section_link_missing_count = 0
  /\ own_row = NoRow /\ orig_section_data = NoRow /\ cleaned_section_data = NoRow
  /\ cleaner_lost = FALSE /\ first_record = NoFirst
  /\ fetch_count = 0 /\ emitted = 0
  /\ pc = "for_section"
  /\ IdleCalls

ProcessAnySection == ProcessSectionOn(AllRows, DetailOutcomes, AllBehaviours)

NextSections ==
  \/ ProcessAnySection
  \/ EndCourse

SpecSections == InitSections /\ [][NextSections]_vars

\* ------------------------------------------------- get_page_content ------
\* soc() is not running
IdleSoc ==
  /\ course_details = TRUE /\ csv_export = FALSE /\ quiet_csv = FALSE
  /\ page = 1 /\ last_page = FALSE /\ text_page = "none" /\ fetched = <<>>
  /\ section_links_map = MapNone /\ n_models = 0 /\ processed = 0 /\ had_marker = FALSE
  /\ course_number = <<>> /\ title_found = FALSE
  /\ retry_count = 0 /\ attempts = 0 /\ delays = <<>>
  /\ course_sections = <<>> /\ i = 0
  /\ shared_details = EmptyDict
  /\ section_link_missing_count = 0
  /\ own_row = NoRow /\ orig_section_data = NoRow /\ cleaned_section_data = NoRow
  /\ cleaner_lost = FALSE /\ first_record = NoFirst
  /\ fetch_count = 0 /\ emitted = 0

\* lines 14-18: the request of this attempt succeeds with a 2xx status
RequestSucceedsOn(Docs) ==
  /\ pc = "gpc_for" /\ attempt < retries
  /\ requests_made' = requests_made + 1
  /\ html_content' \in Docs
  /\ pc' = "gpc_return"
  /\ UNCHANGED <<socv, retries, delay, attempt, failures, sleeps, detailv, linkv, rowsv>>

\* lines 14-25: requests.get or raise_for_status raises a RequestException
RequestRaises ==
  /\ pc = "gpc_for" /\ attempt < retries
  /\ requests_made' = requests_made + 1
  /\ \E e \in RequestExceptions : failures' = Append(failures, e)
  /\ IF sleeps_before_retry(attempt, retries)
     THEN /\ sleeps' = Append(sleeps, retry_sleep(delay, attempt))
          /\ attempt' = attempt + 1
          /\ UNCHANGED <<html_content, pc>>
     ELSE /\ html_content' = NoneDoc
          /\ pc' = "gpc_return"
          /\ UNCHANGED <<sleeps, attempt>>
  /\ UNCHANGED <<socv, retries, delay, detailv, linkv, rowsv>>

\* line 14: range(retries) is empty, the function falls off its end
NoAttemptLeft ==
  /\ pc = "gpc_for" /\ attempt >= retries
  /\ html_content' = NoneDoc
  /\ pc' = "gpc_return"
  /\ UNCHANGED <<socv, retries, delay, attempt, failures, sleeps, requests_made,
                 detailv, linkv, rowsv>>

\* children of a div#section with a description and an empty notes list
SampleChildren ==
  <<TitleP("Course Description"), DataP(" Intro to testing. "),
    TitleP("Class Notes"), Ul(<<>>)>>

PlainPage == Doc("html", "absent", FALSE, TRUE, SampleChildren)

FetchDocs == {EmptyText, PlainPage}

Delays == {1, default_delay}

InitFetch ==
  /\ IdleSoc /\ IdleDetails /\ IdleLinks /\ IdleRows
  /\ retries \in 0..MaxRetriesArg /\ delay \in Delays
  /\ attempt = 0 /\ failures = <<>> /\ sleeps = <<>> /\ requests_made = 0
  /\ html_content = NotFetched
  /\ pc = "gpc_for"

RequestSucceeds == RequestSucceedsOn(FetchDocs)

NextFetch ==
  \/ RequestSucceeds
  \/ RequestRaises
  \/ NoAttemptLeft

SpecFetch == InitFetch /\ [][NextFetch]_vars

\* ---------------------------------- extract_section_details_from_url -----
\* lines 91-93
ReturnNoUrl ==
  /\ pc = "esd_start" /\ Falsy(section_url)
  /\ returned_details' = extract_details(section_url, html_content)
  /\ pc' = "esd_return"
  /\ UNCHANGED <<socv, fetchv, section_url, linkv, rowsv>>

\* lines 95-98: get_page_content(section_url) is entered
CallGetPageContent ==
  /\ pc = "esd_start" /\ ~Falsy(section_url)
  /\ retries' = default_retries /\ delay' = default_delay
  /\ attempt' = 0 /\ failures' = <<>> /\ sleeps' = <<>> /\ requests_made' = 0
  /\ html_content' = NotFetched
  /\ pc' = "gpc_for"
  /\ UNCHANGED <<socv, detailv, linkv, rowsv>>

\* lines 98-136: get_page_content has returned to the extractor
ParseContent ==
  /\ pc = "gpc_return" /\ section_url # NotCalled
  /\ returned_details' = extract_details(section_url, html_content)
  /\ pc' = "esd_return"
  /\ UNCHANGED <<socv, fetchv, section_url, linkv, rowsv>>

\* documents a detail URL may serve
DetailDocs ==
  {EmptyText,
   PlainPage,
   Doc("html", "absent",  FALSE, FALSE, <<>>),
   Doc("html", "empty",   FALSE, FALSE, <<>>),
   Doc("html", "empty",   FALSE, TRUE,  SampleChildren),
   Doc("html", "content", TRUE,  FALSE, SampleChildren),
   Doc("html", "content", FALSE, TRUE,  SampleChildren),
   Doc("html", "content", FALSE, FALSE, <<>>)}

DetailUrls == {None, "", RowUrl, IndexUrl}

InitDetails ==
  /\ IdleSoc /\ IdleFetch /\ IdleLinks /\ IdleRows
  /\ section_url \in DetailUrls
  /\ returned_details = EmptyDict
  /\ pc = "esd_start"

DetailRequestSucceeds == RequestSucceedsOn(DetailDocs)

NextDetails ==
  \/ ReturnNoUrl
  \/ CallGetPageContent
  \/ DetailRequestSucceeds
  \/ RequestRaises
  \/ ParseContent

SpecDetails == InitDetails /\ [][NextDetails]_vars

\* ------------------------------------------------ extract_section_links --
\* lines 77-90: one of the `continue` statements is taken for this div
SkipDiv ==
  /\ pc = "esl_for" /\ div_idx < Len(section_divs)
  /\ ~div_is_mapped(section_divs[div_idx + 1])
  /\ div_idx' = div_idx + 1
  /\ UNCHANGED <<socv, pc, fetchv, detailv, section_divs, section_links, rowsv>>

\* lines 77-99: the div's link is stored under its class id
MapDiv ==
  /\ pc = "esl_for" /\ div_idx < Len(section_divs)
  /\ div_is_mapped(section_divs[div_idx + 1])
  /\ \E div \in {section_divs[div_idx + 1]} :
       section_links' = store_link(section_links, div_class_id(div), section_link_entry(div))
  /\ div_idx' = div_idx + 1
  /\ UNCHANGED <<socv, pc, fetchv, detailv, section_divs, rowsv>>

\* line 100
ReturnLinks ==
  /\ pc = "esl_for" /\ div_idx = Len(section_divs)
  /\ pc' = "esl_return"
  /\ UNCHANGED <<socv, callv>>

\* cls-section divs a listing page may hold
DivShapes ==
  {Div("c1_1", "href",    "/ro/a",                    " Lec 1 "),
   Div("c1_2", "href",    "https://sa.ucla.edu/ro/b", "Lec 2"),
   Div("c2_1", "href",    "detail?x=1",               "Sem 1"),
   Div("c2_9", "href",    "",                         ""),
   Div("c3",   "href",    "/ro/c",                    "Lab 1"),
   Div("",     "href",    "/ro/c",                    "Lab 1"),
   Div("c4_1", "no_href", "",                         "Lec 4"),
   Div("c4_2", "no_a",    "",                         ""),
   Div("c4_3", "no_p",    "",                         ""),
   Div("_7",   "href",    "/ro/d",                    "Tut 7")}

InitLinks ==
  /\ IdleSoc /\ IdleFetch /\ IdleDetails /\ IdleRows
  /\ section_divs \in UNION {[1..n -> DivShapes] : n \in 0..MaxDivs}
  /\ div_idx = 0
  /\ section_links = MapNone
  /\ pc = "esl_for"

NextLinks ==
  \/ SkipDiv
  \/ MapDiv
  \/ ReturnLinks

SpecLinks == InitLinks /\ [][NextLinks]_vars

\* ---------------------------------------------------- get_data_for_title -
\* child elements div#section may hold
SiblingShapes ==
  {TitleP("Class Notes"), TitleP(" Diversity "),
   DataP(" Yes "), DataP(" "),
   Ul(<<" Note A ", "", "Note B">>), Ul(<<>>),
   OtherTag}

ChildLists == UNION {[1..n -> SiblingShapes] : n \in 0..MaxSiblings}

\* the first request for a detail page has just returned a document whose
\* outer part holds div#section
InitTitles ==
  /\ IdleSoc /\ IdleLinks /\ IdleRows
  /\ section_url = RowUrl /\ returned_details = EmptyDict
  /\ retries = default_retries /\ delay = default_delay /\ attempt = 0
  /\ failures = <<>> /\ sleeps = <<>> /\ requests_made = 1
  /\ html_content \in {Doc("html", "absent", FALSE, TRUE, ch) : ch \in ChildLists}
  /\ pc = "gpc_return"

NextTitles == ParseContent

SpecTitles == InitTitles /\ [][NextTitles]_vars

\* ---------------------------------------------- extract_all_section_data -
\* lines 182-227: the try block of this row completes
ExtractRow ==
  /\ pc = "easd_for" /\ Len(sections) < Len(section_rows)
  /\ \E row_idx \in {Len(sections)} :
       /\ ~row_raises(section_rows[row_idx + 1])
       /\ sections' = Append(sections, section_data(section_rows[row_idx + 1]))
  /\ UNCHANGED <<socv, pc, fetchv, detailv, linkv, section_rows>>

\* lines 182-234: the try block of this row raises
ExtractRowRaises ==
  /\ pc = "easd_for" /\ Len(sections) < Len(section_rows)
  /\ \E row_idx \in {Len(sections)} :
       /\ row_raises(section_rows[row_idx + 1])
       /\ sections' = Append(sections, error_row(row_idx))
  /\ UNCHANGED <<socv, pc, fetchv, detailv, linkv, section_rows>>

\* line 235
ReturnSections ==
  /\ pc = "easd_for" /\ Len(sections) = Len(section_rows)
  /\ pc' = "easd_return"
  /\ UNCHANGED <<socv, callv>>

\* section rows a summary page may hold
RowShapes ==
  {SectionRow("c1_1", "href", "/ro/a", " Lec 1 ", "text",
              <<LocationColumn("text", " Royce 190 ")>>),
   SectionRow("c1", "none", "", "", "text", <<>>),
   SectionRow("c2_1", "none", "", "", "tag",
              <<LocationColumn("text", "Boelter 3400")>>),
   SectionRow("c3_1", "href", "https://sa.ucla.edu/ro/b", "Lec 2", "text",
              <<LocationColumn("text", "Location"), LocationColumn("button", "Online")>>),
   SectionRow("c4_1", "href", "detail?x=1", "Dis 1A", "text",
              <<LocationColumn("none", "")>>),
   SectionRow("c5_1", "none", "", "", "text",
              <<LocationColumn("button", "Zoom")>>),
   SectionRow("", "href", "/ro/c", "Lab 1", "tag", <<>>)}

InitRows ==
  /\ IdleSoc /\ IdleFetch /\ IdleDetails /\ IdleLinks
  /\ section_rows \in UNION {[1..n -> RowShapes] : n \in 0..MaxRows}
  /\ sections = <<>>
  /\ pc = "easd_for"

NextRows ==
  \/ ExtractRow
  \/ ExtractRowRaises
  \/ ReturnSections

SpecRows == InitRows /\ [][NextRows]_vars

TypeOK ==
  /\ pc \in {"while", "for_course", "retry", "for_section", "quiet", "done",
              "gpc_for", "gpc_return", "esd_start", "esd_return",
              "esl_for", "esl_return", "easd_for", "easd_return"}
  /\ retry_count \in 0..max_retries

\* ------------------------------------------------------------ claims ----
\* the section loop of the current course has processed at least one row
RowDone == pc = "for_section" /\ i >= 1

\* the section loop of the current course has processed all its rows
SectionLoopDone == pc = "for_section" /\ i = Len(course_sections)

\* C1 as stated: once all N >= 1 rows of a special course are processed in
\* detail mode, the detail extractor has been invoked exactly once, whatever
\* the rows' links are.
C1_ExactlyOnceWhateverLinks ==
  (SectionLoopDone /\ is_special_course(course_number)) => fetch_count = 1

\* C1 amended: for a special course in detail mode the detail extractor is
\* invoked at most once over all rows, and exactly once when row 0 has a
\* section_link after the index fallback; when row 0 has none it is not
\* invoked at all.
C1_OncePerSpecialCourse ==
  (pc = "for_section" /\ is_special_course(course_number)) =>
    /\ fetch_count <= 1
    /\ SectionLoopDone => fetch_count = (IF first_record.linked THEN 1 ELSE 0)

C1_Witness ==
  /\ SectionLoopDone /\ is_special_course(course_number)
  /\ i >= 2 /\ first_record.linked
  /\ ~Falsy(orig_section_data["section_link"])
  /\ fetch_count = 1

\* C2: every finished record of a special course carries the same six
\* supplementary fields as the record of the course's first section, also for
\* rows of index >= 1 that have no section_link.
C2_SameSupplementaryFields ==
  (RowDone /\ is_special_course(course_number)) =>
    Supp(cleaned_section_data) = first_record.supp

\* C3: for a non-special course each row with a section_link after the index
\* fallback invokes the detail extractor exactly once and leaves the
\* missing-link counter alone; each row without one invokes it not at all and
\* adds exactly one to the missing-link counter.
C3_FetchPerLinkedRow ==
  [][ (pc = "for_section" /\ i' = i + 1 /\ ~is_special_course(course_number)) =>
        LET linked == ~Falsy(orig_section_data'["section_link"]) IN
          /\ fetch_count' = fetch_count + (IF linked THEN 1 ELSE 0)
          /\ section_link_missing_count' =
               section_link_missing_count + (IF linked THEN 0 ELSE 1)
    ]_vars

C3_Witness ==
  /\ RowDone /\ ~is_special_course(course_number)
  /\ i >= 2 /\ fetch_count >= 1 /\ section_link_missing_count >= 1

\* C4 as stated: whenever the index has an entry for the row's class_id, an
\* absent section_link (section_id) of the row is replaced by the entry's,
\* and a present one is kept.
C4_FallbackForAnyIndexedClassId ==
  RowDone =>
    LET class_id == own_row["class_id"]
        indexed  == class_id # None /\ class_id \in DOMAIN section_links_map
    IN  /\ (indexed /\ Falsy(own_row["section_link"])) =>
              orig_section_data["section_link"] = section_links_map[class_id].section_link
        /\ (indexed /\ Falsy(own_row["section_id"])) =>
              orig_section_data["section_id"] = section_links_map[class_id].section_id
        /\ ~Falsy(own_row["section_link"]) =>
              orig_section_data["section_link"] = own_row["section_link"]
        /\ ~Falsy(own_row["section_id"]) =>
              orig_section_data["section_id"] = own_row["section_id"]

\* C4 amended: when the row's class_id is non-empty and the index has an
\* entry for it, an absent (None or empty) section_link (section_id) of the
\* row is replaced by the entry's value verbatim, which the finished record
\* keeps when it is non-empty; a present value of the row is never replaced.
C4_FallbackForNonEmptyClassId ==
  RowDone =>
    LET class_id == own_row["class_id"]
        indexed  == ~Falsy(class_id) /\ class_id \in DOMAIN section_links_map
    IN  /\ (indexed /\ Falsy(own_row["section_link"])) =>
              /\ orig_section_data["section_link"] = section_links_map[class_id].section_link
              /\ ~Falsy(section_links_map[class_id].section_link) =>
                   cleaned_section_data["section_link"] = section_links_map[class_id].section_link
        /\ (indexed /\ Falsy(own_row["section_id"])) =>
              /\ orig_section_data["section_id"] = section_links_map[class_id].section_id
              /\ ~Falsy(section_links_map[class_id].section_id) =>
                   cleaned_section_data["section_id"] = section_links_map[class_id].section_id
        /\ ~Falsy(own_row["section_link"]) =>
              /\ orig_section_data["section_link"] = own_row["section_link"]
              /\ cleaned_section_data["section_link"] = own_row["section_link"]
        /\ ~Falsy(own_row["section_id"]) =>
              /\ orig_section_data["section_id"] = own_row["section_id"]
              /\ cleaned_section_data["section_id"] = own_row["section_id"]

C4_Witness ==
  /\ RowDone
  /\ own_row["class_id"] = "c1" /\ "c1" \in DOMAIN section_links_map
  /\ own_row["section_link"] = "" /\ own_row["section_id"] = "1A"
  /\ orig_section_data["section_link"] = IndexUrl
  /\ orig_section_data["section_id"] = "1A"

\* C5: each of section_id, section_link and the six supplementary fields
\* that is non-empty in the merged row before cleaning has exactly that value
\* in the finished record, whatever the cleaner did to it.
C5_CleanThenRestore ==
  RowDone =>
    \A k \in preserved_keys :
      ~Falsy(orig_section_data[k]) => cleaned_section_data[k] = orig_section_data[k]

C5_Witness ==
  /\ RowDone /\ cleaner_lost
  /\ orig_section_data["section_id"] = "1A"
  /\ cleaned_section_data["section_id"] = "1A"
  /\ orig_section_data["course_description"] = PageDetails["course_description"]

\* C6: listing pages are requested in the order 1, 2, 3, ..., each at most
\* once; a page is requested only when the page before it was delivered, had
\* course models that were all taken by the course loop, and carried no
\* last-page marker; a page with zero course models ends the run with no
\* course processed, and the marker is looked for only after all courses of
\* the page were processed.
C6_Pagination ==
  /\ [](/\ \A n \in 1..Len(fetched) : fetched[n] = n
        /\ (text_page = "ok" /\ n_models = 0) => (pc = "done" /\ processed = 0)
        /\ had_marker => processed = n_models)
  /\ [][ /\ pc # "done"
         /\ fetched' # fetched =>
              /\ fetched' = Append(fetched, Len(fetched) + 1)
              /\ fetched # <<>> =>
                   /\ text_page = "ok" /\ n_models > 0
                   /\ processed = n_models /\ ~had_marker
    ]_vars

C6_Witness ==
  /\ pc = "done" /\ had_marker
  /\ fetched = <<1, 2>>
  /\ n_models >= 2 /\ processed = n_models

\* C7: the summary fetch of a course is attempted at most 3 times; the wait
\* after the n-th failed attempt is n * 2 seconds; no attempt follows one that
\* did not raise; after 3 failed attempts the course has exactly one row, with
\* status "Unknown - Connection Error" and no section_id or section_link, and
\* the run goes on to the section loop.
C7_SummaryRetry ==
  (pc = "retry" \/ (pc = "for_section" /\ i = 0)) =>
    /\ attempts <= 3
    /\ Len(delays) = retry_count
    /\ \A n \in 1..Len(delays) : delays[n] = n * 2
    /\ pc = "retry" => (attempts = retry_count /\ retry_count < 3)
    /\ pc = "for_section" =>
         \/ attempts = retry_count + 1
         \/ /\ attempts = retry_count /\ retry_count = 3
            /\ Len(course_sections) = 1
            /\ course_sections[1]["status"] = "Unknown - Connection Error"
            /\ course_sections[1]["section_id"] = None
            /\ course_sections[1]["section_link"] = None

C7_Witness ==
  /\ pc = "for_section" /\ i = 0
  /\ attempts = 3 /\ delays = <<2, 4, 6>>
  /\ course_sections = <<ConnErrorRow("c1")>>

\* C8: a failure to fetch a listing page after the first does not end the
\* paging loop.
C8_LaterPageFailureDoesNotEndLoop ==
  ~(pc = "done" /\ text_page = "empty" /\ page >= 2)

\* the course loop has just finished with a course model
CourseHandled ==
  \/ SectionLoopDone
  \/ pc = "for_course" /\ processed >= 1

PageContentReturned == pc = "gpc_return"

\* C11: get_page_content(url, retries, delay) makes at most `retries`
\* requests; a request is made only while nothing has been returned, so the
\* text of the first successful request is returned with no request after
\* it; the n-th failed request is followed by a sleep of delay * n seconds
\* exactly when another attempt remains; and when every request fails with a
\* connection error, a timeout or an HTTP error status, the function returns
\* None.
C11_BoundedRetries ==
  /\ [](/\ requests_made <= retries
        /\ \A n \in 1..Len(sleeps) : sleeps[n] = delay * n
        /\ ~PageContentReturned =>
             /\ requests_made = Len(failures)
             /\ Len(sleeps) = Len(failures)
        /\ (PageContentReturned /\ html_content # NoneDoc) =>
             /\ requests_made = Len(failures) + 1
             /\ Len(sleeps) = Len(failures)
        /\ (PageContentReturned /\ html_content = NoneDoc) =>
             /\ requests_made = Len(failures)
             /\ requests_made = (IF retries > 0 THEN retries ELSE 0)
             /\ Len(sleeps) = (IF retries > 0 THEN retries - 1 ELSE 0)
        /\ (PageContentReturned /\ retries > 0 /\ Len(failures) = retries) =>
             html_content = NoneDoc)
  /\ [][ requests_made' # requests_made =>
           /\ ~PageContentReturned
           /\ requests_made' = requests_made + 1
       ]_vars

C11_Witness ==
  /\ PageContentReturned /\ section_url = NotCalled
  /\ retries = 3 /\ delay = 1
  /\ failures = <<"Timeout", "HTTPError">>
  /\ sleeps = <<1, 2>>
  /\ requests_made = 3
  /\ html_content = PlainPage

\* extract_section_details_from_url has returned
DetailsReturned == pc = "esd_return"

\* all supplementary fields but course_description are "N/A"
OtherFiveNA(rec) ==
  \A k \in SuppKeys \ {"course_description"} : rec[k] = "N/A"

\* C12: extract_section_details_from_url always returns a record with
\* exactly the six supplementary keys, each with a value; for an empty URL
\* course_description is "N/A (No URL provided)" and the other five are
\* "N/A"; when get_page_content returned None course_description is
\* "N/A (Failed to fetch page content)" and the other five are "N/A"; when
\* div#section is neither in the template fragment nor in the outer document
\* all six are "N/A".
C12_DetailSentinels ==
  DetailsReturned =>
    /\ DOMAIN returned_details = SuppKeys
    /\ \A k \in SuppKeys : returned_details[k] # None
    /\ Falsy(section_url) =>
         /\ returned_details["course_description"] = "N/A (No URL provided)"
         /\ OtherFiveNA(returned_details)
         /\ requests_made = 0
    /\ (~Falsy(section_url) /\ html_content = NoneDoc) =>
         /\ returned_details["course_description"] = "N/A (Failed to fetch page content)"
         /\ OtherFiveNA(returned_details)
    /\ (/\ ~Falsy(section_url) /\ html_content.kind = "html"
        /\ ~(html_content.template = "content" /\ html_content.tpl_root)
        /\ ~html_content.main_root) =>
         \A k \in SuppKeys : returned_details[k] = "N/A"

C12_Witness ==
  /\ DetailsReturned /\ section_url = RowUrl
  /\ html_content = NoneDoc /\ Len(failures) = 3
  /\ returned_details["course_description"] = "N/A (Failed to fetch page content)"
  /\ returned_details["class_notes"] = "N/A"

\* extract_section_links has returned
LinksReturned == pc = "esl_return"

\* a URL with scheme and host
IsAbsoluteUrl(url) ==
  \E scheme \in {"http://", "https://"} :
    startswith(url, scheme) /\ Len(url) > Len(scheme)

\* C13: every section_link stored in the map that extract_section_links
\* returns is an absolute URL, whatever the href of the anchor was.
C13_LinksAlwaysAbsolute ==
  LinksReturned =>
    \A c \in DOMAIN section_links : IsAbsoluteUrl(section_links[c].section_link)

\* the id has an underscore, and the first p.hide-small an anchor with href
ValidDiv(d) ==
  /\ \E k \in 1..Len(d.id) : SubSeq(d.id, k, k) = "_"
  /\ d.anchor = "href"

\* the part of the id before its first underscore
FirstIdPart(d) ==
  LET k == CHOOSE k \in 1..Len(d.id) :
             /\ SubSeq(d.id, k, k) = "_"
             /\ \A j \in 1..(k - 1) : SubSeq(d.id, j, j) # "_"
  IN  SubSeq(d.id, 1, k - 1)

\* C14: the map that extract_section_links returns has as keys exactly the
\* first '_'-delimited id parts of the divs whose id has at least two such
\* parts and whose narrow-title paragraph has an anchor with href; a div
\* whose id has no underscore is passed over and the loop goes on to the
\* end; for a class id on several such divs the entry is that of the last
\* one in document order.
C14_KeysAndLastWriteWins ==
  /\ pc \in {"esl_for", "esl_return"} => div_idx <= Len(section_divs)
  /\ LinksReturned =>
       LET valid == {n \in 1..Len(section_divs) : ValidDiv(section_divs[n])} IN
       /\ div_idx = Len(section_divs)
       /\ DOMAIN section_links = {FirstIdPart(section_divs[n]) : n \in valid}
       /\ \A n \in valid :
            (\A m \in valid : FirstIdPart(section_divs[m]) = FirstIdPart(section_divs[n])
                                => m <= n)
            => section_links[FirstIdPart(section_divs[n])] =
                 [section_id   |-> strip(section_divs[n].text),
                  section_link |-> absolutize(section_divs[n].href)]

C14_Witness ==
  /\ LinksReturned
  /\ Len(section_divs) = 3
  /\ section_divs[1].id = "c1_1" /\ section_divs[2].id = "c3" /\ section_divs[3].id = "c1_2"
  /\ DOMAIN section_links = {"c1"}
  /\ section_links["c1"] = [section_id |-> "Lec 2", section_link |-> "https://sa.ucla.edu/ro/b"]

\* positions of the title paragraphs of div#section whose trimmed text is t
TitleMarkers(children, t) ==
  {n \in 1..Len(children) :
     /\ children[n].name = "p" /\ children[n].class = "class_detail_title"
     /\ strip(children[n].text) = t}

\* positions of the data elements (p.section_data or ul) after position n
DataAfter(children, n) ==
  {m \in (n + 1)..Len(children) :
     \/ children[m].name = "p" /\ children[m].class = "section_data"
     \/ children[m].name = "ul"}

\* C15: for each of the six titles the extracted field is "N/A" exactly when
\* div#section has no title paragraph with that trimmed text, and it is
\* "N/A (Empty)" whenever the title paragraph exists but no data element
\* follows it.
C15_TitleSentinels ==
  DetailsReturned =>
    \A k \in SuppKeys :
      LET children == html_content.children
          markers  == TitleMarkers(children, title_of[k])
      IN  /\ returned_details[k] = "N/A" <=> markers = {}
          /\ (markers # {} /\ \A n \in markers : DataAfter(children, n) = {}) =>
                returned_details[k] = "N/A (Empty)"

\* C16: the shared-details cache is empty when the section loop of a course
\* starts; during the loop of a special course it holds nothing or the
\* details fetched for row 0 of that course, so a later row that takes its
\* supplementary fields from the cache gets those of row 0 of the same
\* course and never those of an earlier course or page; for a course that is
\* not special the cache stays empty.
C16_CacheScopedToCourse ==
  /\ (pc = "for_section" /\ i = 0) => shared_details = EmptyDict
  /\ (pc = "for_section" /\ ~is_special_course(course_number)) =>
       shared_details = EmptyDict
  /\ (RowDone /\ is_special_course(course_number)) =>
       /\ shared_details = (IF first_record.linked THEN first_record.supp ELSE EmptyDict)
       /\ (i >= 2 /\ ~Falsy(orig_section_data["section_link"])) =>
            Supp(cleaned_section_data) = first_record.supp

C16_Witness ==
  /\ RowDone /\ is_special_course(course_number)
  /\ page = 3 /\ processed >= 1
  /\ i >= 2 /\ first_record.linked
  /\ ~Falsy(orig_section_data["section_link"])
  /\ shared_details["course_description"] = "N/A (Failed to fetch page content)"
  /\ cleaned_section_data["course_description"] = "N/A (Failed to fetch page content)"
  /\ fetch_count = 1

\* extract_all_section_data has returned
SectionsReturned == pc = "easd_return"

\* C17: extract_all_section_data returns one record per section row, in row
\* order; the record of a row whose extraction raises is the all-"Error" row
\* with section_id "Error_Row_<index>", index being the row's position
\* counted from 0, and no section_link; the record of every other row is
\* what that row alone determines, whatever happened to the rows around it.
C17_ErrorRowPerFailedRow ==
  /\ Len(sections) <= Len(section_rows)
  /\ SectionsReturned => Len(sections) = Len(section_rows)
  /\ \A n \in 1..Len(sections) :
       IF section_rows[n].waitlist = "tag"
       THEN sections[n] = [class_id |-> None, waitlist |-> "Error", location |-> "Error",
                           section_id |-> "Error_Row_" \o ToString(n - 1),
                           section_link |-> None]
       ELSE sections[n] = section_data(section_rows[n])

C17_Witness ==
  /\ SectionsReturned /\ Len(section_rows) = 2
  /\ section_rows[1].waitlist = "tag" /\ section_rows[2].id = "c1_1"
  /\ sections[1].section_id = "Error_Row_0" /\ sections[1].section_link = None
  /\ sections[2].class_id = "c1" /\ sections[2].section_id = "Lec 1"
  /\ sections[2].section_link = "https://sa.ucla.edu/ro/a"

\* C18: the location of a row is read from the row's own location column: a
\* row with exactly one location column whose paragraph has text, or a
\* button with text, gets that text, and "N/A" only comes from a row without
\* location column or without paragraph in it.
C18_LocationFromOwnColumn ==
  \A n \in 1..Len(sections) :
    LET cols == section_rows[n].location_columns IN
    section_rows[n].waitlist # "tag" =>
      /\ (Len(cols) = 1 /\ cols[1].p \in {"text", "button"}) =>
           /\ sections[n].location = strip(cols[1].text)
           /\ sections[n].location # "N/A"
      /\ sections[n].location = "N/A" =>
           (cols = <<>> \/ \E m \in 1..Len(cols) : cols[m].p = "none")

====
